---- MODULE Spec2Model ----
(***************************************************************************)
(* Model of algorithms/data-structures-linked-lists/linked-list-concordance.js *)
(*                                                                         *)
(*   - class LinkedList (a heap of Node objects reached from `head`),       *)
(*   - concordance(data): the word -> sentence-index map,                   *)
(*   - searchLines(words, concordance, data): the query loop.               *)
(*                                                                         *)
(* Strings are sequences of one-character strings, so that split() and      *)
(* toLowerCase() are computed and not assumed.                              *)
(***************************************************************************)
EXTENDS Integers, Sequences, FiniteSets, TLC

VARIABLES heap, head, values, err, op,
          data, conc, pcC,
          terms, word, result, lowerCasedKey, index, pcS, ret

listVars == <<heap, head, values, err, op>>
concVars == <<data, conc, pcC>>
searchVars == <<terms, word, result, lowerCasedKey, index, pcS, ret>>
vars == <<heap, head, values, err, op, data, conc, pcC,
          terms, word, result, lowerCasedKey, index, pcS, ret>>

(***************************************************************************)
(* Bounds of the model.                                                     *)
(***************************************************************************)
\* most nodes a list holds in the container specification
MaxNodes == 3
\* longest array handed to the LinkedList constructor
MaxArrayLen == 4

\* values stored in the nodes of the container specification
Vals == {"a", "b"}

\* elements of the arrays handed to the constructor
ArrayVals == {"a", "b", "c"}

\* JavaScript's null (also stands for undefined where the code only tests truthiness)
Null == 0

(***************************************************************************)
(* class Node / class LinkedList                                            *)
(***************************************************************************)
\* the address `new Node(...)` returns: the first one not in use
FreshAddr(h) ==
    CHOOSE a \in 1..(Cardinality(DOMAIN h) + 1) :
        a \notin DOMAIN h /\ \A b \in 1..(a - 1) : b \in DOMAIN h

\* the LinkedList object: its head pointer and the Node objects it can reach
EmptyList == [heap |-> <<>>, head |-> Null]

\* the nodes met when following .next from `node`
RECURSIVE NodesFrom(_, _)
NodesFrom(h, node) ==
    IF node = Null THEN <<>> ELSE <<node>> \o NodesFrom(h, h[node].next)

\* get length(): counts the nodes from head
Length(L) == Len(NodesFrom(L.heap, L.head))

\* asArray(): the values of the nodes from head, in order
AsArray(L) ==
    LET nodes == NodesFrom(L.heap, L.head)
    IN  [i \in 1..Len(nodes) |-> L.heap[nodes[i]].value]

\* insertAtHead(value): this.head = new Node(value, this.head)
InsertAtHead(L, value) ==
    LET a == FreshAddr(L.heap)
    IN  [heap |-> (a :> [value |-> value, next |-> L.head]) @@ L.heap,
         head |-> a]

\* a reverse() that leaves the order as it is (variant for the round trip)
ArrayReverseIdentity(xs) == xs

\* Array.prototype.reverse(): reverses the array in place and returns it
ArrayReverse(xs) == [i \in 1..Len(xs) |-> xs[Len(xs) + 1 - i]]

\* xs.forEach((value) => this.insertAtHead(value))
RECURSIVE ForEachInsertAtHead(_, _)
ForEachInsertAtHead(L, xs) ==
    IF xs = <<>> THEN L
    ELSE ForEachInsertAtHead(InsertAtHead(L, Head(xs)), Tail(xs))

\* constructor(values) with an array: the list built, and the array afterwards
Constructor(xs) ==
    [list   |-> ForEachInsertAtHead(EmptyList, ArrayReverse(xs)),
     values |-> ArrayReverse(xs)]

\* a default predicate that is off by one (variant for the default insert)
DefaultIsMatchOffByOne(L, idx) == idx = Length(L)

\* the default isMatch of insert: (node, index) => index === this.length - 1
DefaultIsMatch(L, idx) == idx = Length(L) - 1

\* the match predicates callers pass: the default of insert, by value, by
\* index, and one that never matches

Preds ==
    {[kind |-> "default", v |-> "", i |-> 0], [kind |-> "never", v |-> "", i |-> 0]}
    \cup {[kind |-> "value", v |-> v, i |-> 0] : v \in Vals}
    \cup {[kind |-> "index", v |-> "", i |-> i] : i \in 0..1}

\* isMatch(node, index, this)
IsMatch(p, L, node, idx) ==
    CASE p.kind = "default" -> DefaultIsMatch(L, idx)
      [] p.kind = "value"   -> L.heap[node].value = p.v
      [] p.kind = "index"   -> idx = p.i
      [] OTHER              -> FALSE

\* the while loop of findWithPrevious
RECURSIVE FindLoop(_, _, _, _, _)
FindLoop(L, p, idx, previous, node) ==
    IF node = Null THEN <<Null, Null>>
    ELSE IF IsMatch(p, L, node, idx) THEN <<node, previous>>
    ELSE FindLoop(L, p, idx + 1, node, L.heap[node].next)

FindWithPrevious(L, p) == FindLoop(L, p, 0, Null, L.head)

Find(L, p) == FindWithPrevious(L, p)[1]

\* nodes no longer reachable from head are dropped (garbage collection)
Collect(L) ==
    LET live == {NodesFrom(L.heap, L.head)[i] : i \in 1..Length(L)}
    IN  [heap |-> [a \in live |-> L.heap[a]], head |-> L.head]

\* an insert that puts the value at the head instead of throwing (variant
\* for the no-match error)
InsertIgnoringNoMatch(L, value, p) ==
    IF L.head # Null /\ Find(L, p) # Null
    THEN LET previousNode == Find(L, p)
             a == FreshAddr(L.heap)
         IN  [list |-> [heap |-> (a :> [value |-> value, next |-> L.heap[previousNode].next])
                                 @@ [L.heap EXCEPT ![previousNode].next = a],
                        head |-> L.head],
              err |-> "none"]
    ELSE [list |-> InsertAtHead(L, value), err |-> "none"]

\* insert(value, isMatch): the list afterwards and the error thrown, if any
Insert(L, value, p) ==
    IF L.head # Null
    THEN LET previousNode == Find(L, p)
             a == FreshAddr(L.heap)
         IN  IF previousNode = Null
             THEN [list |-> L, err |-> "No match found."]
             ELSE [list |-> [heap |-> (a :> [value |-> value, next |-> L.heap[previousNode].next])
                                      @@ [L.heap EXCEPT ![previousNode].next = a],
                             head |-> L.head],
                   err |-> "none"]
    ELSE [list |-> InsertAtHead(L, value), err |-> "none"]

\* remove(isMatch): reading .next of null throws a TypeError
Remove(L, p) ==
    LET matchedNode  == FindWithPrevious(L, p)[1]
        previousNode == FindWithPrevious(L, p)[2]
    IN  IF L.head = matchedNode
        THEN IF L.head = Null
             THEN [list |-> L, err |-> "TypeError"]
             ELSE [list |-> Collect([heap |-> L.heap, head |-> L.heap[L.head].next]),
                   err |-> "none"]
        ELSE IF previousNode = Null \/ matchedNode = Null
             THEN [list |-> L, err |-> "TypeError"]
             ELSE [list |-> Collect([heap |-> [L.heap EXCEPT ![previousNode].next =
                                                  L.heap[matchedNode].next],
                                     head |-> L.head]),
                   err |-> "none"]

(***************************************************************************)
(* The container specification: a caller using one LinkedList.             *)
(***************************************************************************)
This == [heap |-> heap, head |-> head]

Arrays == UNION {[1..n -> ArrayVals] : n \in 0..MaxArrayLen}

NoOp == [name |-> "none", value |-> "", pred |-> [kind |-> "never", v |-> "", i |-> 0],
         before |-> <<>>, beforeNodes |-> <<>>, arg |-> <<>>]

\* what the last call on the list was, and what the list held when it began
Called(name, value, p) ==
    [name |-> name, value |-> value, pred |-> p,
     before |-> AsArray(This), beforeNodes |-> NodesFrom(heap, head), arg |-> <<>>]

\* what the last construction was, and what the array held when it began
Constructed(name, arg) == [NoOp EXCEPT !.name = name, !.arg = arg]

ListInit ==
    /\ heap = <<>>
    /\ head = Null
    /\ values = <<>>
    /\ err = "none"
    /\ op = NoOp

\* list = new LinkedList(xs), xs a fresh array the caller keeps as `values`
Construct ==
    \E xs \in Arrays :
        /\ heap' = Constructor(xs).list.heap
        /\ head' = Constructor(xs).list.head
        /\ values' = Constructor(xs).values
        /\ err' = "none"
        /\ op' = Constructed("construct", xs)
        /\ UNCHANGED <<concVars, searchVars>>

\* list = new LinkedList(values), the array of an earlier construction again
ConstructAgain ==
    /\ op.name \in {"construct", "constructAgain"}
    /\ heap' = Constructor(values).list.heap
    /\ head' = Constructor(values).list.head
    /\ values' = Constructor(values).values
    /\ err' = "none"
    /\ op' = Constructed("constructAgain", values)
    /\ UNCHANGED <<concVars, searchVars>>

\* list = new LinkedList(): `values` is undefined and nothing is inserted
ConstructNoValues ==
    /\ heap' = EmptyList.heap
    /\ head' = EmptyList.head
    /\ err' = "none"
    /\ op' = Called("constructNoValues", "", NoOp.pred)
    /\ UNCHANGED <<values, concVars, searchVars>>

CallInsertAtHead ==
    \E v \in Vals :
        /\ Length(This) < MaxNodes
        /\ heap' = InsertAtHead(This, v).heap
        /\ head' = InsertAtHead(This, v).head
        /\ err' = "none"
        /\ op' = Called("insertAtHead", v, NoOp.pred)
        /\ UNCHANGED <<values, concVars, searchVars>>

CallInsert ==
    \E v \in Vals, p \in Preds :
        /\ Length(This) < MaxNodes
        /\ heap' = Insert(This, v, p).list.heap
        /\ head' = Insert(This, v, p).list.head
        /\ err' = Insert(This, v, p).err
        /\ op' = Called("insert", v, p)
        /\ UNCHANGED <<values, concVars, searchVars>>

CallRemove ==
    \E p \in Preds :
        /\ heap' = Remove(This, p).list.heap
        /\ head' = Remove(This, p).list.head
        /\ err' = Remove(This, p).err
        /\ op' = Called("remove", "", p)
        /\ UNCHANGED <<values, concVars, searchVars>>

ConstructNext ==
    \/ Construct
    \/ ConstructAgain

ListNext ==
    \/ ConstructNoValues
    \/ CallInsertAtHead
    \/ CallInsert
    \/ CallRemove

(***************************************************************************)
(* Strings: split(/[\s.,';]/), new Set(...), toLowerCase()                  *)
(***************************************************************************)
\* the characters the sentences of the model are written with
Alphabet == {"a", "A", "b", " ", ";", ","}

\* the characters \s matches that the model writes
Whitespace == {" ", "\t", "\n"}

\* the character class [\s.,';] of the split
Delimiters == Whitespace \cup {".", ",", "'", ";"}

\* the while loop of String.prototype.split with a one-character separator:
\* `cur` is the piece being read
RECURSIVE SplitLoop(_, _)
SplitLoop(s, cur) ==
    IF s = <<>> THEN <<cur>>
    ELSE IF Head(s) \in Delimiters
         THEN <<cur>> \o SplitLoop(Tail(s), <<>>)
         ELSE SplitLoop(Tail(s), Append(cur, Head(s)))

Split(s) == SplitLoop(s, <<>>)

\* [...new Set(xs)]: the distinct elements in order of first occurrence
RECURSIVE SetOf(_, _)
SetOf(xs, seen) ==
    IF xs = <<>> THEN seen
    ELSE IF \E i \in 1..Len(seen) : seen[i] = Head(xs)
         THEN SetOf(Tail(xs), seen)
         ELSE SetOf(Tail(xs), Append(seen, Head(xs)))

\* toLowerCase() of one character
LowerChar(c) ==
    CASE c = "A" -> "a"
      [] c = "B" -> "b"
      [] c = "C" -> "c"
      [] c = "Z" -> "z"
      [] OTHER   -> c

\* String.prototype.toLowerCase()
ToLowerCase(s) == [i \in 1..Len(s) |-> LowerChar(s[i])]

(***************************************************************************)
(* concordance(data)                                                        *)
(***************************************************************************)
\* a callback that does not lower-case the word (variant for the membership)
AddWordNoLowerCase(map, w, idx) ==
    IF w # <<>>
    THEN IF w \in DOMAIN map
         THEN [map EXCEPT ![w] = Append(map[w], idx)]
         ELSE (w :> <<idx>>) @@ map
    ELSE map

\* the body of the forEach callback: lower-case the word and, unless it is
\* empty, add `idx` to its entry of the map
AddWord(map, w, idx) ==
    LET lower == ToLowerCase(w)
    IN  IF lower # <<>>
        THEN IF lower \in DOMAIN map
             THEN [map EXCEPT ![lower] = Append(map[lower], idx)]
             ELSE (lower :> <<idx>>) @@ map
        ELSE map

\* wordsArray.forEach(...)
RECURSIVE ForEachWord(_, _, _)
ForEachWord(map, wordsArray, idx) ==
    IF wordsArray = <<>> THEN map
    ELSE ForEachWord(AddWord(map, Head(wordsArray), idx), Tail(wordsArray), idx)

\* the for..of loop over data.entries(), from 0-based position idx on
RECURSIVE ConcordanceLoop(_, _, _)
ConcordanceLoop(map, sentences, idx) ==
    IF idx >= Len(sentences) THEN map
    ELSE ConcordanceLoop(
             ForEachWord(map, SetOf(Split(sentences[idx + 1]), <<>>), idx),
             sentences, idx + 1)

\* concordance(data): Object.fromEntries keeps each key with its index list
Concordance(sentences) == ConcordanceLoop(<<>>, sentences, 0)

(***************************************************************************)
(* The indexer specification: concordance() over every small text.         *)
(***************************************************************************)
\* most sentences of a text, and most characters of a text in total
MaxSentences == 2
MaxChars == 4

RECURSIVE Sum(_)
Sum(ns) == IF ns = <<>> THEN 0 ELSE Head(ns) + Sum(Tail(ns))

\* `flat` cut into consecutive pieces of the lengths `lens`
RECURSIVE Chop(_, _)
Chop(flat, lens) ==
    IF lens = <<>> THEN <<>>
    ELSE <<SubSeq(flat, 1, Head(lens))>>
         \o Chop(SubSeq(flat, Head(lens) + 1, Len(flat)), Tail(lens))

ConcIdle ==
    /\ data = <<>>
    /\ conc = <<>>
    /\ pcC = "idle"

ConcInit ==
    \E n \in 0..MaxChars, k \in 0..MaxSentences :
        \E flat \in [1..n -> Alphabet], lens \in [1..k -> 0..n] :
            /\ Sum(lens) = n
            /\ data = Chop(flat, lens)
            /\ conc = <<>>
            /\ pcC = "call"

\* conc = concordance(data)
CallConcordance ==
    /\ pcC = "call"
    /\ conc' = Concordance(data)
    /\ pcC' = "done"
    /\ UNCHANGED <<data, listVars, searchVars>>

(***************************************************************************)
(* searchLines(words, concordance, data)                                    *)
(***************************************************************************)
\* result.includes(sentence)
Includes(xs, x) == \E i \in 1..Len(xs) : xs[i] = x

\* a push without the includes test (variant for the duplicate freedom)
PushAlways(xs, sentence) == Append(xs, sentence)

\* the if/else of the index loop: push the sentence unless it is included
PushUnlessIncluded(xs, sentence) ==
    IF Includes(xs, sentence) THEN xs ELSE Append(xs, sentence)

\* most sentences and most query terms of the query specification
MaxSearchSentences == 3
MaxTerms == 2

\* the sentences and the query terms the query specification draws from
SentencePool == {<<"a", " ", "b">>, <<"A">>, <<"b">>, <<"c">>}
TermPool == {<<"a">>, <<"B">>, <<"z">>}

SearchIdle ==
    /\ terms = <<>>
    /\ word = Null
    /\ result = <<>>
    /\ lowerCasedKey = <<>>
    /\ index = 0
    /\ pcS = "idle"
    /\ ret = <<>>

\* conc = concordance(data); words = new LinkedList(terms)
SearchInit ==
    /\ data \in UNION {[1..n -> SentencePool] : n \in 0..MaxSearchSentences}
    /\ conc = Concordance(data)
    /\ pcC = "done"
    /\ terms \in UNION {[1..n -> TermPool] : n \in 0..MaxTerms}
    /\ heap = Constructor(terms).list.heap
    /\ head = Constructor(terms).list.head
    /\ values = Constructor(terms).values
    /\ err = "none"
    /\ op = NoOp
    /\ word = Null
    /\ result = <<>>
    /\ lowerCasedKey = <<>>
    /\ index = 0
    /\ pcS = "call"
    /\ ret = <<>>

\* lines 311-320: entry, the empty-list return, the one lower-casing
SearchEnter ==
    /\ pcS = "call"
    /\ word' = head
    /\ result' = <<>>
    /\ IF head = Null
       THEN /\ ret' = <<>>
            /\ pcS' = "done"
            /\ UNCHANGED lowerCasedKey
       ELSE /\ lowerCasedKey' = ToLowerCase(heap[head].value)
            /\ pcS' = "while"
            /\ UNCHANGED ret
    /\ UNCHANGED <<terms, index, listVars, concVars>>

\* lines 323-326, 347-349, 356: the while test and the hasOwnProperty test
SearchWhile ==
    /\ pcS = "while"
    /\ IF word = Null
       THEN /\ ret' = result
            /\ pcS' = "done"
            /\ UNCHANGED index
       ELSE IF lowerCasedKey \in DOMAIN conc
            THEN /\ index' = 0
                 /\ pcS' = "for"
                 /\ UNCHANGED ret
            ELSE /\ ret' = <<>>
                 /\ pcS' = "done"
                 /\ UNCHANGED index
    /\ UNCHANGED <<terms, word, result, lowerCasedKey, listVars, concVars>>

\* lines 329-345, 352: one turn of the index loop, or leaving it for the next word
SearchFor ==
    /\ pcS = "for"
    /\ IF index < Len(conc[lowerCasedKey])
       THEN /\ result' = PushUnlessIncluded(result, data[conc[lowerCasedKey][index + 1] + 1])
            /\ index' = index + 1
            /\ UNCHANGED <<word, pcS>>
       ELSE /\ word' = heap[word].next
            /\ pcS' = "while"
            /\ UNCHANGED <<result, index>>
    /\ UNCHANGED <<terms, lowerCasedKey, ret, listVars, concVars>>

SearchNext ==
    \/ SearchEnter
    \/ SearchWhile
    \/ SearchFor

(***************************************************************************)
(* Specifications                                                           *)
(***************************************************************************)
Init == ListInit /\ ConcIdle /\ SearchIdle

Next == ListNext

Spec == Init /\ [][Next]_vars

NextConstruct == ConstructNext

SpecConstruct == Init /\ [][NextConstruct]_vars

InitConc == ListInit /\ ConcInit /\ SearchIdle

NextConc == CallConcordance

SpecConc == InitConc /\ [][NextConc]_vars

NextSearch == SearchNext

SpecSearch == SearchInit /\ [][NextSearch]_vars

(***************************************************************************)
(* Properties of the container                                              *)
(***************************************************************************)
\* the predicate p, read on position i (from 1) of the array xs of node values
Satisfies(p, xs, i) ==
    CASE p.kind = "default" -> i = Len(xs)
      [] p.kind = "value"   -> xs[i] = p.v
      [] p.kind = "index"   -> i - 1 = p.i
      [] OTHER              -> FALSE

SomeNodeMatches(p, xs) == \E i \in 1..Len(xs) : Satisfies(p, xs, i)

FirstMatch(p, xs) ==
    CHOOSE i \in 1..Len(xs) :
        Satisfies(p, xs, i) /\ \A j \in 1..(i - 1) : ~Satisfies(p, xs, j)

\* xs without its position i
Without(xs, i) == SubSeq(xs, 1, i - 1) \o SubSeq(xs, i + 1, Len(xs))

\* C6: insert throws 'No match found.' exactly when the list is not empty and
\* no node satisfies the predicate, and then the nodes of the list are the
\* same as before; on an empty list it never throws and the value becomes the
\* only element.
InsertNoMatchError ==
    op.name = "insert" =>
        /\ err \in {"none", "No match found."}
        /\ err = "No match found." <=>
               (op.before # <<>> /\ ~SomeNodeMatches(op.pred, op.before))
        /\ err = "No match found." =>
               /\ NodesFrom(heap, head) = op.beforeNodes
               /\ AsArray(This) = op.before
        /\ op.before = <<>> => (err = "none" /\ AsArray(This) = <<op.value>>)

InsertNoMatchWitness ==
    /\ op.name = "insert"
    /\ err = "No match found."
    /\ Len(op.before) >= 2
    /\ op.pred.kind = "value"

\* C8: insert(value) with the default predicate never throws and leaves the
\* list as it was with value added at the end.
DefaultInsertAppends ==
    (op.name = "insert" /\ op.pred.kind = "default") =>
        /\ err = "none"
        /\ AsArray(This) = Append(op.before, op.value)

DefaultInsertWitness ==
    /\ op.name = "insert"
    /\ op.pred.kind = "default"
    /\ Len(op.before) = 2
    /\ op.before[1] # op.before[2]
    /\ AsArray(This) = Append(op.before, op.value)

\* C9: remove never throws; it removes exactly the first matching node and
\* keeps the others in order, and without a match it leaves the list as it was.
RemoveNeverFails ==
    op.name = "remove" =>
        /\ err = "none"
        /\ AsArray(This) = IF SomeNodeMatches(op.pred, op.before)
                           THEN Without(op.before, FirstMatch(op.pred, op.before))
                           ELSE op.before

(***************************************************************************)
(* Properties of the constructor                                            *)
(***************************************************************************)
\* C7: asArray() of new LinkedList(xs) is xs as it was handed over.
ConstructRoundTrip ==
    op.name \in {"construct", "constructAgain"} => AsArray(This) = op.arg

ConstructRoundTripWitness ==
    /\ op.name = "construct"
    /\ Len(op.arg) = 3
    /\ op.arg[1] # op.arg[3]
    /\ AsArray(This) = op.arg

\* C10: the constructor leaves the caller's array as it was.
ConstructLeavesArray ==
    op.name \in {"construct", "constructAgain"} => values = op.arg

(***************************************************************************)
(* Properties of concordance()                                              *)
(***************************************************************************)
\* the delimiter set of the specification: whitespace . , ' ;
SpecDelimiters == {" ", "\t", "\n", ".", ",", "'", ";"}

UpperCase == {"A", "B", "C", "Z"}

\* the pieces of s between delimiters (also the empty ones)
TokensOf(s) ==
    {SubSeq(s, j, k) : <<j, k>> \in
        {jk \in (1..(Len(s) + 1)) \X (0..Len(s)) :
            /\ jk[1] <= jk[2] + 1
            /\ \A i \in jk[1]..jk[2] : s[i] \notin SpecDelimiters
            /\ jk[1] = 1 \/ s[jk[1] - 1] \in SpecDelimiters
            /\ jk[2] = Len(s) \/ s[jk[2] + 1] \in SpecDelimiters}}

\* the lower-cased non-empty tokens of sentence number i (from 0)
WordsOf(i) == {ToLowerCase(t) : t \in TokensOf(data[i + 1])} \ {<<>>}

Positions == 0..(Len(data) - 1)

Range(f) == {f[i] : i \in DOMAIN f}

\* C3: the index list of every word is strictly increasing.
IndexListsStrictlyIncreasing ==
    pcC = "done" =>
        \A w \in DOMAIN conc :
            \A i, j \in 1..Len(conc[w]) : i < j => conc[w][i] < conc[w][j]

\* C4: i is in concordance(S)[w] if and only if w is a non-empty lower-cased
\* token of S[i]; so the keys are the words that occur, no list is empty, the
\* empty string is no key and no key holds an upper-case letter.
ConcordanceMembership ==
    pcC = "done" =>
        /\ \A w \in DOMAIN conc :
               /\ w # <<>>
               /\ conc[w] # <<>>
               /\ Range(conc[w]) \subseteq Positions
               /\ \A i \in 1..Len(w) : w[i] \notin UpperCase
               /\ \A i \in Positions : i \in Range(conc[w]) <=> w \in WordsOf(i)
        /\ \A i \in Positions : WordsOf(i) \subseteq DOMAIN conc

ConcordanceMembershipWitness ==
    /\ pcC = "done"
    /\ Len(data) = 2
    /\ data[1] # data[2]
    /\ ToLowerCase(data[1]) # data[1]
    /\ \E w \in DOMAIN conc : Range(conc[w]) = {0, 1}
    /\ \E i \in 1..2 : <<>> \in TokensOf(data[i]) /\ data[i] # <<>>

(***************************************************************************)
(* Properties of searchLines()                                              *)
(***************************************************************************)
NoDuplicates(xs) == \A i, j \in 1..Len(xs) : i # j => xs[i] # xs[j]

\* the sentences of the index list `ixs`, added to acc unless already there
RECURSIVE AddMatches(_, _)
AddMatches(acc, ixs) ==
    IF ixs = <<>> THEN acc
    ELSE AddMatches(IF Includes(acc, data[Head(ixs) + 1]) THEN acc
                    ELSE Append(acc, data[Head(ixs) + 1]),
                    Tail(ixs))

\* the reference search: every term lower-cased and looked up in turn
RECURSIVE ReferenceSearch(_, _)
ReferenceSearch(acc, ts) ==
    IF ts = <<>> THEN acc
    ELSE ReferenceSearch(AddMatches(acc, conc[ToLowerCase(Head(ts))]), Tail(ts))

AllTermsPresent == \A i \in 1..Len(terms) : ToLowerCase(terms[i]) \in DOMAIN conc

\* C1: if any term of the list is absent from the concordance, searchLines
\* returns the empty sequence.
AbortOnAnyAbsentTerm ==
    (pcS = "done" /\ ~AllTermsPresent) => ret = <<>>

\* C2: when every term is present, searchLines returns the reference result.
SearchMatchesReference ==
    (pcS = "done" /\ AllTermsPresent) => ret = ReferenceSearch(<<>>, terms)

\* C5: neither the accumulator, at any step, nor the returned sequence holds
\* the same sentence twice.
NoDuplicateSentences == NoDuplicates(result) /\ NoDuplicates(ret)

NoDuplicateSentencesWitness ==
    /\ pcS = "done"
    /\ Len(terms) = 2
    /\ Len(ret) >= 2
    /\ \E i, j \in 1..Len(data) : i < j /\ data[i] = data[j] /\ Includes(ret, data[i])

====
